---- MODULE Spec2Model ----
(***************************************************************************)
(* Model of bsconv/pytorch/replacers.py: the rule-based module replacement *)
(* engine (ModuleReplacer), its filters, transformers and presets.         *)
(*                                                                         *)
(* Python objects live in a heap: a sequence of objects, an object's       *)
(* identity being its index.  A module's child mapping is the ordered      *)
(* sequence of [name, ref] entries (torch's OrderedDict _modules).         *)
(* Strings are TLA+ strings, concatenated with \o as str.format does.      *)
(***************************************************************************)
EXTENDS Integers, Sequences, FiniteSets, TLC

\* ------------------------------------------------------------------ bounds
MaxRules == 2
MaxAllowlist == 2
MaxApplies == 1


\* ------------------------------------------------------------------ utils

\* Python values given as kernel sizes: an int, a tuple or a list of values
PyInt(n) == [ty |-> "int", val |-> n]
PyTuple(s) == [ty |-> "tuple", val |-> s]
PyList(s) == [ty |-> "list", val |-> s]
None == [ty |-> "NoneType", val |-> <<>>]
Absent == [ty |-> "absent", val |-> <<>>]

\* Mutant of forceTwoTuple: a scalar is not broadcast to a pair
forceTwoTuple_no_broadcast(x) == IF x.ty = "list" THEN PyTuple(x.val) ELSE x

forceTwoTuple(x) ==
    LET x1 == IF x.ty = "list" THEN PyTuple(x.val) ELSE x
    IN IF x1.ty # "tuple" THEN PyTuple(<<x1, x1>>) ELSE x1

\* ------------------------------------------------------------------ heap

Obj(kind, is_module, kernel_size, children) ==
    [kind |-> kind, is_module |-> is_module, kernel_size |-> kernel_size,
     children |-> children, reg_loss |-> FALSE]

\* torch.nn.Conv2d stores kernel_size as a pair
Conv2d(kh, kw) == Obj("Conv2d", TRUE, PyTuple(<<PyInt(kh), PyInt(kw)>>), <<>>)
Container(children) == Obj("Sequential", TRUE, Absent, children)
ReLU == Obj("ReLU", TRUE, Absent, <<>>)
\* an attribute value that is not a torch.nn.Module, e.g. a list holding modules
NonModule(items) == Obj("list", FALSE, Absent, items)
Entry(name, ref) == [name |-> name, ref |-> ref]

\* Mutant of named_children: the pairs are enumerated last to first
named_children_reversed(heap, module) ==
    [j \in 1..Len(heap[module].children) |->
        heap[module].children[Len(heap[module].children) + 1 - j]]

\* module.named_children(): the (name, child) pairs of the child mapping, in order
named_children(heap, module) == heap[module].children

IndexOfName(children, child_name) ==
    CHOOSE j \in 1..Len(children) : children[j].name = child_name

\* Mutant of setattr: the rebound name is deleted and inserted again, at the end
setattr_reinsert(heap, module, child_name, new_child) ==
    LET cs == heap[module].children
        j == IndexOfName(cs, child_name)
    IN [heap EXCEPT ![module].children =
            Append(SubSeq(cs, 1, j - 1) \o SubSeq(cs, j + 1, Len(cs)),
                   Entry(child_name, new_child))]

\* Mutant of setattr: the first name of the mapping is rebound
setattr_first(heap, module, child_name, new_child) ==
    [heap EXCEPT ![module].children = [heap[module].children EXCEPT ![1].ref = new_child]]

\* setattr(module, child_name, new_child): rebinding an existing name keeps
\* its position in the ordered child mapping
setattr(heap, module, child_name, new_child) ==
    LET cs == heap[module].children
        j == IndexOfName(cs, child_name)
    IN [heap EXCEPT ![module].children = [cs EXCEPT ![j].ref = new_child]]

\* ------------------------------------------------------------------ filters

NoException == "none"

ModelFilter == [cls |-> "ModelFilter"]

\* Conv2dFilter.__init__: kernel_sizes is None or an iterable of sizes
Conv2dFilter(kernel_sizes) ==
    [cls |-> "Conv2dFilter",
     kernel_sizes |-> IF kernel_sizes.ty # "NoneType"
                      THEN PyTuple([i \in DOMAIN kernel_sizes.val |->
                                        forceTwoTuple(kernel_sizes.val[i])])
                      ELSE kernel_sizes]

\* A user-written subclass of ModuleFilter: matches modules by type, and its
\* apply may raise on some types
KindFilter(kinds, raises) == [cls |-> "KindFilter", kinds |-> kinds, raises |-> raises]

\* Mutant of ModelFilter_apply: "top level" is taken for "root"
ModelFilter_apply_top_level(heap, module, name, full_name) == full_name = name

ModelFilter_apply(heap, module, name, full_name) == full_name = ""

\* Mutant of Conv2dFilter_apply: the kernel size is not looked at
Conv2dFilter_apply_any_kernel(self, heap, module, name, full_name) ==
    heap[module].kind = "Conv2d"

Conv2dFilter_apply(self, heap, module, name, full_name) ==
    IF heap[module].kind # "Conv2d" THEN FALSE
    ELSE IF (self.kernel_sizes.ty = "NoneType")
            \/ (\E i \in DOMAIN self.kernel_sizes.val :
                    self.kernel_sizes.val[i] = heap[module].kernel_size)
         THEN TRUE
         ELSE FALSE

\* rule.filter.apply(module, name, full_name): [raised, value]
Filter_apply(self, heap, module, name, full_name) ==
    CASE self.cls = "ModelFilter" ->
            [raised |-> NoException,
             value |-> ModelFilter_apply(heap, module, name, full_name)]
      [] self.cls = "Conv2dFilter" ->
            [raised |-> NoException,
             value |-> Conv2dFilter_apply(self, heap, module, name, full_name)]
      [] self.cls = "KindFilter" ->
            IF heap[module].kind \in self.raises
            THEN [raised |-> "FilterError", value |-> FALSE]
            ELSE [raised |-> NoException, value |-> heap[module].kind \in self.kinds]

\* ------------------------------------------------------------------ transformers

Conv2dToBSConvUTransformer == [cls |-> "Conv2dToBSConvUTransformer"]
BSConvSTransformer == [cls |-> "BSConvSTransformer"]
RegularizationMethodTransformer == [cls |-> "RegularizationMethodTransformer"]

\* bsconv.pytorch.modules.BSConvU(kernel_size=...): a container of a pointwise
\* 1x1 convolution "pw" and a depthwise convolution "dw" of the given size
New_BSConvU(heap, kernel_size) ==
    LET n == Len(heap)
    IN [heap |-> heap \o << Obj("BSConvU", TRUE, Absent,
                                <<Entry("pw", n + 2), Entry("dw", n + 3)>>),
                            Conv2d(1, 1),
                            Obj("Conv2d", TRUE, kernel_size, <<>>) >>,
        module |-> n + 1]

\* bsconv.pytorch.modules.BSConvS(kernel_size=...): two pointwise 1x1
\* convolutions "pw1", "pw2" and a depthwise convolution "dw"
New_BSConvS(heap, kernel_size) ==
    LET n == Len(heap)
    IN [heap |-> heap \o << Obj("BSConvS", TRUE, Absent,
                                <<Entry("pw1", n + 2), Entry("pw2", n + 3),
                                  Entry("dw", n + 4)>>),
                            Conv2d(1, 1),
                            Conv2d(1, 1),
                            Obj("Conv2d", TRUE, kernel_size, <<>>) >>,
        module |-> n + 1]

\* reading module.in_channels, .kernel_size, ... of a module that is no
\* convolution raises AttributeError
Conv2dToBSConvUTransformer_apply(heap, module, name, full_name) ==
    IF heap[module].kind # "Conv2d"
    THEN [raised |-> "AttributeError", heap |-> heap, module |-> module]
    ELSE LET r == New_BSConvU(heap, heap[module].kernel_size)
         IN [raised |-> NoException, heap |-> r.heap, module |-> r.module]

BSConvSTransformer_apply(heap, module, name, full_name) ==
    IF heap[module].kind # "Conv2d"
    THEN [raised |-> "AttributeError", heap |-> heap, module |-> module]
    ELSE LET r == New_BSConvS(heap, heap[module].kernel_size)
         IN [raised |-> NoException, heap |-> r.heap, module |-> r.module]

\* module.reg_loss = types.MethodType(reg_loss, module); return module
RegularizationMethodTransformer_apply(heap, module, name, full_name) ==
    [raised |-> NoException,
     heap |-> [heap EXCEPT ![module].reg_loss = TRUE],
     module |-> module]

\* rule.transformer.apply(module, name, full_name): [raised, heap, module]
Transformer_apply(self, heap, module, name, full_name) ==
    CASE self.cls = "Conv2dToBSConvUTransformer" ->
            Conv2dToBSConvUTransformer_apply(heap, module, name, full_name)
      [] self.cls = "BSConvSTransformer" ->
            BSConvSTransformer_apply(heap, module, name, full_name)
      [] self.cls = "RegularizationMethodTransformer" ->
            RegularizationMethodTransformer_apply(heap, module, name, full_name)

\* ------------------------------------------------------------------ rules

\* a module whose class defines _reg_loss(), returning v (in tenths)
WithRegLoss(obj, v) == obj @@ [_reg_loss |-> v]

\* getattr(sub_module, "_reg_loss") succeeds
HasRegLoss(obj) == "_reg_loss" \in DOMAIN obj

\* module.modules(): the module itself, then its descendants, depth first in
\* child order
RECURSIVE modules(_, _)
RECURSIVE modules_of_children(_, _, _)
modules_of_children(heap, children, k) ==
    IF k > Len(children) THEN <<>>
    ELSE modules(heap, children[k].ref) \o modules_of_children(heap, children, k + 1)

\* Mutant of modules: the children only, without the module itself
modules_without_self(heap, module) ==
    modules_of_children(heap, named_children(heap, module), 1)

modules(heap, module) ==
    <<module>> \o modules_of_children(heap, named_children(heap, module), 1)

\* the loop of reg_loss over sub_modules[k..], loss being the sum so far
RECURSIVE reg_loss_loop(_, _, _, _)
reg_loss_loop(heap, sub_modules, k, loss) ==
    IF k > Len(sub_modules) THEN loss
    ELSE IF ~HasRegLoss(heap[sub_modules[k]])
         THEN reg_loss_loop(heap, sub_modules, k + 1, loss)
         ELSE reg_loss_loop(heap, sub_modules, k + 1, loss + heap[sub_modules[k]]._reg_loss)

\* module.reg_loss(), the method RegularizationMethodTransformer attached
reg_loss_call(heap, module) == reg_loss_loop(heap, modules(heap, module), 1, 0)

ModuleReplacementRule(filter_, transformer) ==
    [filter |-> filter_, transformer |-> transformer]

\* ------------------------------------------------------------------ engine

\* The running call: the heap, the filter and transformer invocations made so
\* far, the lines printed, and the exception being propagated (if any)
FilterCall(i, module, name, full_name, f) ==
    [ev |-> "filter", rule |-> i, module |-> module, name |-> name,
     full_name |-> full_name, raised |-> f.raised, value |-> f.value, result |-> module]

TransformerCall(i, module, name, full_name, t) ==
    [ev |-> "transformer", rule |-> i, module |-> module, name |-> name,
     full_name |-> full_name, raised |-> t.raised, value |-> TRUE, result |-> t.module]

ReplacedLine(full_name, old_type_name, new_type_name) ==
    [line |-> "replaced", path |-> IF full_name # "" THEN full_name ELSE "(root)",
     old |-> old_type_name, new |-> new_type_name, total |-> 0, plural |-> ""]

Raise(st, exc) == [st EXCEPT !.raised = exc]
Log(st, ev) == [st EXCEPT !.trace = Append(@, ev)]
Emit(st, line) == [st EXCEPT !.out = Append(@, line)]

\* Mutant of _transformer_result: the replacement is reported from verbosity 1 on
_transformer_result_verbose(self, st, i, module, name, full_name, t) ==
    IF t.raised # NoException
    THEN [st |-> Raise(Log(st, TransformerCall(i, module, name, full_name, t)), t.raised),
          count |-> 0, module |-> module]
    ELSE [st |-> IF self.verbosity >= 1
                 THEN Emit(Log([st EXCEPT !.heap = t.heap],
                                TransformerCall(i, module, name, full_name, t)),
                            ReplacedLine(full_name, st.heap[module].kind,
                                         t.heap[t.module].kind))
                 ELSE Log([st EXCEPT !.heap = t.heap],
                          TransformerCall(i, module, name, full_name, t)),
          count |-> 1, module |-> t.module]

\* ModuleReplacer._apply_rules, lines 186-195: the filter of rule i matched,
\* t is what its transformer did
_transformer_result(self, st, i, module, name, full_name, t) ==
    IF t.raised # NoException
    THEN [st |-> Raise(Log(st, TransformerCall(i, module, name, full_name, t)), t.raised),
          count |-> 0, module |-> module]
    ELSE [st |-> IF self.verbosity >= 2
                 THEN Emit(Log([st EXCEPT !.heap = t.heap],
                                TransformerCall(i, module, name, full_name, t)),
                            ReplacedLine(full_name, st.heap[module].kind,
                                         t.heap[t.module].kind))
                 ELSE Log([st EXCEPT !.heap = t.heap],
                          TransformerCall(i, module, name, full_name, t)),
          count |-> 1, module |-> t.module]

\* ModuleReplacer._apply_rules: the loop over self.rules from rule i on;
\* _filter_result is the loop body once the filter of rule i answered f
RECURSIVE _apply_rules_from(_, _, _, _, _, _)
\* Mutant of _filter_result: no return after a match, the loop goes on with the
\* transformer's output
_after_transformer(self, i, name, full_name, r) ==
    IF r.st.raised # NoException \/ i >= Len(self.rules) THEN r
    ELSE _apply_rules_from(self, r.st, i + 1, r.module, name, full_name)

_filter_result_no_return(self, st, i, module, name, full_name, f) ==
    IF f.raised # NoException
    THEN [st |-> Raise(Log(st, FilterCall(i, module, name, full_name, f)), f.raised),
          count |-> 0, module |-> module]
    ELSE IF f.value
    THEN _after_transformer(self, i, name, full_name,
             _transformer_result(self, Log(st, FilterCall(i, module, name, full_name, f)),
                 i, module, name, full_name,
                 Transformer_apply(self.rules[i].transformer, st.heap, module, name, full_name)))
    ELSE _apply_rules_from(self, Log(st, FilterCall(i, module, name, full_name, f)),
             i + 1, module, name, full_name)

_filter_result(self, st, i, module, name, full_name, f) ==
    IF f.raised # NoException
    THEN [st |-> Raise(Log(st, FilterCall(i, module, name, full_name, f)), f.raised),
          count |-> 0, module |-> module]
    ELSE IF f.value
    THEN _transformer_result(self, Log(st, FilterCall(i, module, name, full_name, f)),
             i, module, name, full_name,
             Transformer_apply(self.rules[i].transformer, st.heap, module, name, full_name))
    ELSE _apply_rules_from(self, Log(st, FilterCall(i, module, name, full_name, f)),
             i + 1, module, name, full_name)

_apply_rules_from(self, st, i, module, name, full_name) ==
    IF i > Len(self.rules)
    THEN [st |-> st, count |-> 0, module |-> module]
    ELSE _filter_result(self, st, i, module, name, full_name,
             Filter_apply(self.rules[i].filter, st.heap, module, name, full_name))

_apply_rules(self, st, module, name, full_name) ==
    _apply_rules_from(self, st, 1, module, name, full_name)

\* "{}{}".format(name_prefix, child_name)
child_full_name_of(name_prefix, child_name) == name_prefix \o child_name

\* Mutant of child_name_prefix_of: the separator is left out
child_name_prefix_of_nodot(name_prefix, child_name) == name_prefix \o child_name

\* "{}{}.".format(name_prefix, child_name)
child_name_prefix_of(name_prefix, child_name) == name_prefix \o child_name \o "."

\* ModuleReplacer._apply_recursively.  _apply_children is its loop over the
\* snapshot `children` (named_children) from position k on; _child_rules_result
\* is the loop body after _apply_rules returned r1 for the child,
\* _child_result the end of the body with (child_replaced_count, new_child) = r2
RECURSIVE _apply_recursively(_, _, _, _)
RECURSIVE _apply_children(_, _, _, _, _, _, _)
\* Mutant of _child_result: the count is assigned, not accumulated
_child_result_assign(self, module, name_prefix, children, k, replaced_count, r2) ==
    IF r2.st.raised # NoException
    THEN [st |-> r2.st, count |-> replaced_count, module |-> module]
    ELSE _apply_children(self,
             [r2.st EXCEPT !.heap = setattr(@, module, children[k].name, r2.module)],
             module, name_prefix, children, k + 1, r2.count)

_child_result(self, module, name_prefix, children, k, replaced_count, r2) ==
    IF r2.st.raised # NoException
    THEN [st |-> r2.st, count |-> replaced_count, module |-> module]
    ELSE _apply_children(self,
             [r2.st EXCEPT !.heap = setattr(@, module, children[k].name, r2.module)],
             module, name_prefix, children, k + 1, replaced_count + r2.count)

\* Mutant of _child_rules_result: the walk descends into the child whether or
\* not a rule applied to it
_child_rules_result_descend(self, module, name_prefix, children, k, replaced_count, r1) ==
    IF r1.st.raised = NoException
    THEN _child_result(self, module, name_prefix, children, k, replaced_count + r1.count,
             [_apply_recursively(self, r1.st, children[k].ref,
                                 child_name_prefix_of(name_prefix, children[k].name))
              EXCEPT !.module = r1.module])
    ELSE _child_result(self, module, name_prefix, children, k, replaced_count, r1)

_child_rules_result(self, module, name_prefix, children, k, replaced_count, r1) ==
    IF r1.st.raised = NoException /\ r1.count = 0
    THEN _child_result(self, module, name_prefix, children, k, replaced_count,
             _apply_recursively(self, r1.st, children[k].ref,
                                child_name_prefix_of(name_prefix, children[k].name)))
    ELSE _child_result(self, module, name_prefix, children, k, replaced_count, r1)

\* Mutant of _apply_children: children that are not modules are not skipped
_apply_children_no_skip(self, st, module, name_prefix, children, k, replaced_count) ==
    IF k > Len(children)
    THEN [st |-> st, count |-> replaced_count, module |-> module]
    ELSE _child_rules_result(self, module, name_prefix, children, k, replaced_count,
             _apply_rules(self, st, children[k].ref, children[k].name,
                          child_full_name_of(name_prefix, children[k].name)))

_apply_children(self, st, module, name_prefix, children, k, replaced_count) ==
    IF k > Len(children)
    THEN [st |-> st, count |-> replaced_count, module |-> module]
    ELSE IF ~st.heap[children[k].ref].is_module
    THEN _apply_children(self, st, module, name_prefix, children, k + 1, replaced_count)
    ELSE _child_rules_result(self, module, name_prefix, children, k, replaced_count,
             _apply_rules(self, st, children[k].ref, children[k].name,
                          child_full_name_of(name_prefix, children[k].name)))

_apply_recursively(self, st, module, name_prefix) ==
    _apply_children(self, st, module, name_prefix, named_children(st.heap, module), 1, 0)

TotalLine(total_replaced_count) ==
    [line |-> "total", path |-> "", old |-> "", new |-> "",
     total |-> total_replaced_count,
     plural |-> IF total_replaced_count = 1 THEN "" ELSE "s"]

\* ModuleReplacer.apply: r1 is what the root-level _apply_rules returned, r2
\* what _apply_recursively returned; the result of the call, with its locals
\* Mutant of apply_result: a failed call puts the children back as they were
apply_result_rollback(self, r1, r2) ==
    [raised |-> r2.st.raised,
     heap |-> IF r2.st.raised = NoException THEN r2.st.heap
              ELSE [n \in DOMAIN r2.st.heap |->
                       IF n \in DOMAIN r1.st.heap THEN r1.st.heap[n] ELSE r2.st.heap[n]],
     trace |-> r2.st.trace,
     out |-> IF r2.st.raised = NoException /\ self.verbosity >= 1
             THEN Append(r2.st.out, TotalLine(r2.count + r1.count))
             ELSE r2.st.out,
     returned |-> IF r2.st.raised = NoException THEN r2.module ELSE 0,
     root_replaced_count |-> r1.count,
     replaced_count |-> IF r2.st.raised = NoException THEN r2.count ELSE 0,
     root_module |-> r1.module,
     root_heap |-> r1.st.heap]

apply_result(self, r1, r2) ==
    [raised |-> r2.st.raised,
     heap |-> r2.st.heap,
     trace |-> r2.st.trace,
     out |-> IF r2.st.raised = NoException /\ self.verbosity >= 1
             THEN Append(r2.st.out, TotalLine(r2.count + r1.count))
             ELSE r2.st.out,
     returned |-> IF r2.st.raised = NoException THEN r2.module ELSE 0,
     root_replaced_count |-> r1.count,
     replaced_count |-> IF r2.st.raised = NoException THEN r2.count ELSE 0,
     root_module |-> r1.module,
     root_heap |-> r1.st.heap]

\* Mutant of apply_children_of_root: the children are walked only when no rule
\* matched the root
apply_children_of_root_terminal(self, r1) ==
    IF r1.st.raised = NoException /\ r1.count = 0
    THEN apply_result(self, r1, _apply_recursively(self, r1.st, r1.module, ""))
    ELSE apply_result(self, r1, [r1 EXCEPT !.count = 0])

apply_children_of_root(self, r1) ==
    IF r1.st.raised = NoException
    THEN apply_result(self, r1, _apply_recursively(self, r1.st, r1.module, ""))
    ELSE apply_result(self, r1, r1)

apply_call(self, heap, module) ==
    apply_children_of_root(self,
        _apply_rules(self, [heap |-> heap, trace |-> <<>>, out |-> <<>>,
                            raised |-> NoException],
                     module, "", ""))

\* ModuleReplacer.add_rule(*args): [raised, rules]
RuleArg(rule) == [ty |-> "ModuleReplacementRule", val |-> rule]
FilterArg(filter_) == [ty |-> "ModuleFilter", val |-> filter_]
TransformerArg(transformer) == [ty |-> "ModuleTransformer", val |-> transformer]
OtherArg == [ty |-> "str", val |-> "rule"]

\* Mutant of add_rule_call: the number of arguments is not checked when the
\* first one is a rule
add_rule_call_first_arg(rules, args) ==
    IF Len(args) >= 1 /\ args[1].ty = "ModuleReplacementRule"
    THEN [raised |-> NoException, rules |-> Append(rules, args[1].val)]
    ELSE IF Len(args) = 2 /\ args[1].ty = "ModuleFilter" /\ args[2].ty = "ModuleTransformer"
    THEN [raised |-> NoException,
          rules |-> Append(rules, ModuleReplacementRule(args[1].val, args[2].val))]
    ELSE [raised |-> "TypeError", rules |-> rules]

\* Mutant of add_rule_call: the new rule is put in front
add_rule_call_prepend(rules, args) ==
    IF Len(args) = 1 /\ args[1].ty = "ModuleReplacementRule"
    THEN [raised |-> NoException, rules |-> <<args[1].val>> \o rules]
    ELSE IF Len(args) = 2 /\ args[1].ty = "ModuleFilter" /\ args[2].ty = "ModuleTransformer"
    THEN [raised |-> NoException,
          rules |-> <<ModuleReplacementRule(args[1].val, args[2].val)>> \o rules]
    ELSE [raised |-> "TypeError", rules |-> rules]

add_rule_call(rules, args) ==
    IF Len(args) = 1 /\ args[1].ty = "ModuleReplacementRule"
    THEN [raised |-> NoException, rules |-> Append(rules, args[1].val)]
    ELSE IF Len(args) = 2 /\ args[1].ty = "ModuleFilter" /\ args[2].ty = "ModuleTransformer"
    THEN [raised |-> NoException,
          rules |-> Append(rules, ModuleReplacementRule(args[1].val, args[2].val))]
    ELSE [raised |-> "TypeError", rules |-> rules]

\* ------------------------------------------------------------------ presets

DefaultKernelSizes ==
    PyTuple(<< PyTuple(<<PyInt(3), PyInt(3)>>), PyTuple(<<PyInt(5), PyInt(5)>>) >>)

\* ModuleReplacer.__init__
ModuleReplacer_init == <<>>

\* BSConvU_Replacer.__init__
BSConvU_Replacer_init(kernel_sizes) ==
    add_rule_call(ModuleReplacer_init,
                  << FilterArg(Conv2dFilter(kernel_sizes)),
                     TransformerArg(Conv2dToBSConvUTransformer) >>).rules

\* BSConvS_Replacer.__init__
BSConvS_Replacer_init(kernel_sizes) ==
    LET first == add_rule_call(ModuleReplacer_init,
                     << FilterArg(Conv2dFilter(kernel_sizes)),
                        TransformerArg(BSConvSTransformer) >>).rules
    IN add_rule_call(first,
                     << FilterArg(ModelFilter),
                        TransformerArg(RegularizationMethodTransformer) >>).rules

Replacer_init(class) ==
    CASE class = "ModuleReplacer" -> ModuleReplacer_init
      [] class = "BSConvU_Replacer" -> BSConvU_Replacer_init(DefaultKernelSizes)
      [] class = "BSConvS_Replacer" -> BSConvS_Replacer_init(DefaultKernelSizes)

\* ------------------------------------------------------------------ inputs

ReplacerClasses == {"ModuleReplacer", "BSConvU_Replacer", "BSConvS_Replacer"}
Verbosities == {0, 1, 2}

\* The rules callers add
RuleUniverse ==
    { ModuleReplacementRule(Conv2dFilter(DefaultKernelSizes), Conv2dToBSConvUTransformer),
      ModuleReplacementRule(ModelFilter, RegularizationMethodTransformer),
      ModuleReplacementRule(Conv2dFilter(None), RegularizationMethodTransformer),
      ModuleReplacementRule(KindFilter({"ReLU"}, {}), Conv2dToBSConvUTransformer),
      ModuleReplacementRule(KindFilter({}, {"ReLU"}), RegularizationMethodTransformer),
      ModuleReplacementRule(KindFilter({"Sequential"}, {}), RegularizationMethodTransformer) }

\* The argument lists add_rule is called with
ArgLists ==
    { <<RuleArg(r)>> : r \in RuleUniverse }
    \cup { <<FilterArg(Conv2dFilter(DefaultKernelSizes)), TransformerArg(BSConvSTransformer)>>,
           <<>>,
           <<OtherArg>>,
           <<TransformerArg(RegularizationMethodTransformer), FilterArg(ModelFilter)>>,
           <<RuleArg(ModuleReplacementRule(ModelFilter, RegularizationMethodTransformer)),
             RuleArg(ModuleReplacementRule(ModelFilter, RegularizationMethodTransformer))>>,
           <<FilterArg(ModelFilter), TransformerArg(RegularizationMethodTransformer),
             TransformerArg(RegularizationMethodTransformer)>> }

\* The models apply is called on: [heap, root]
Models ==
    { \* two root-level convolutions, 3x3 and 7x7
      [heap |-> << Container(<<Entry("conv1", 2), Entry("conv2", 3)>>),
                   Conv2d(3, 3), Conv2d(7, 7) >>,
       root |-> 1],
      \* root -> "block1" -> "conv1", with activations, a non-module child
      \* holding a convolution, and a non-square convolution
      [heap |-> << Container(<<Entry("block1", 2), Entry("buf", 5), Entry("act", 6),
                               Entry("conv2", 7)>>),
                   Container(<<Entry("conv1", 3), Entry("relu", 4)>>),
                   Conv2d(3, 3), ReLU, NonModule(<<Entry("item", 8)>>), ReLU,
                   Conv2d(3, 5), Conv2d(3, 3) >>,
       root |-> 1],
      \* the root itself is a convolution
      [heap |-> << Conv2d(5, 5) >>, root |-> 1] }

\* ------------------------------------------------------------------ state

VARIABLES
    verbosity,   \* self.verbosity
    rules,       \* self.rules
    heap,        \* the objects
    model,       \* the caller's model (root module)
    added,       \* the rules of the successful add_rule calls, in call order
    napplies,    \* number of apply calls made
    call,        \* the last call: [op, args]
    pre,         \* the state the last call started from
    res,         \* what the last call did
    frames       \* the _apply_recursively calls in progress, innermost last

vars == <<verbosity, rules, heap, model, added, napplies, call, pre, res, frames>>

NoResult ==
    [raised |-> NoException, trace |-> <<>>, out |-> <<>>, returned |-> 0,
     root_replaced_count |-> 0, replaced_count |-> 0, root_module |-> 0,
     root_heap |-> <<>>]

Snapshot == [rules |-> rules, verbosity |-> verbosity, heap |-> heap, model |-> model]

Init ==
    /\ verbosity \in Verbosities
    /\ \E class \in ReplacerClasses :
          /\ rules = Replacer_init(class)
          /\ added = Replacer_init(class)
          /\ call = [op |-> class, args |-> <<>>]
    /\ \E m \in Models : heap = m.heap /\ model = m.root
    /\ napplies = 0
    /\ pre = [rules |-> <<>>, verbosity |-> 0, heap |-> <<>>, model |-> 0]
    /\ res = NoResult
    /\ frames = <<>>

\* the rule an accepted argument list denotes
RuleOfArgs(args) ==
    IF Len(args) = 1 THEN args[1].val
    ELSE ModuleReplacementRule(args[1].val, args[2].val)

\* replacer.add_rule(*args)
add_rule(args) ==
    LET r == add_rule_call(rules, args)
    IN /\ Len(r.rules) <= MaxRules
       /\ rules' = r.rules
       /\ added' = IF r.raised = NoException THEN Append(added, RuleOfArgs(args)) ELSE added
       /\ call' = [op |-> "add_rule", args |-> [i \in DOMAIN args |-> args[i].ty]]
       /\ pre' = Snapshot
       /\ res' = [NoResult EXCEPT !.raised = r.raised]
       /\ UNCHANGED <<verbosity, heap, model, napplies, frames>>

\* model = replacer.apply(model)
apply ==
    LET r == apply_call([verbosity |-> verbosity, rules |-> rules], heap, model)
    IN /\ napplies < MaxApplies
       /\ napplies' = napplies + 1
       /\ heap' = r.heap
       /\ model' = IF r.raised = NoException THEN r.returned ELSE model
       /\ call' = [op |-> "apply", args |-> <<>>]
       /\ pre' = Snapshot
       /\ res' = [raised |-> r.raised, trace |-> r.trace, out |-> r.out,
                  returned |-> r.returned,
                  root_replaced_count |-> r.root_replaced_count,
                  replaced_count |-> r.replaced_count,
                  root_module |-> r.root_module, root_heap |-> r.root_heap]
       /\ UNCHANGED <<verbosity, rules, added, frames>>

Next ==
    \/ \E args \in ArgLists : add_rule(args)
    \/ apply

Spec == Init /\ [][Next]_vars

\* ------------------------------------------------------------------ properties

\* Tree vocabulary the properties are stated in
RECURSIVE Join(_)
Join(path) ==
    IF path = <<>> THEN ""
    ELSE IF Len(path) = 1 THEN path[1]
    ELSE path[1] \o "." \o Join(Tail(path))

RECURSIVE PathsTo(_, _, _)
PathsTo(h, r, n) ==
    IF r = n THEN {<<>>}
    ELSE UNION { { <<h[r].children[j].name>> \o p : p \in PathsTo(h, h[r].children[j].ref, n) } :
                 j \in DOMAIN h[r].children }

\* the child names from r down to n (<<"?">> when n is not below r)
PathTo(h, r, n) ==
    IF PathsTo(h, r, n) = {} THEN <<"?">> ELSE CHOOSE p \in PathsTo(h, r, n) : TRUE

\* the object the path leads to from r (0 when there is none)
RECURSIVE Resolve(_, _, _)
Resolve(h, r, path) ==
    IF path = <<>> THEN r
    ELSE IF r = 0 \/ ~(\E j \in DOMAIN h[r].children : h[r].children[j].name = path[1]) THEN 0
    ELSE Resolve(h, h[r].children[IndexOfName(h[r].children, path[1])].ref, Tail(path))

RECURSIVE Subtree(_, _)
Subtree(h, r) ==
    {r} \cup UNION { Subtree(h, h[r].children[j].ref) : j \in DOMAIN h[r].children }

Applied == call.op = "apply"
Completed == Applied /\ res.raised = NoException
Trace == res.trace
TransformerCalls == { k \in DOMAIN Trace : Trace[k].ev = "transformer" }
Replacements == { k \in TransformerCalls : Trace[k].raised = NoException }
RootMatched ==
    \E k \in DOMAIN Trace :
        Trace[k].ev = "filter" /\ Trace[k].module = pre.model /\ Trace[k].value
\* the tree apply walks: the one below the module the root-level check returned
PathOf(n) == PathTo(res.root_heap, res.root_module, n)
ModuleChildren(h, r) == { j \in DOMAIN h[r].children : h[h[r].children[j].ref].is_module }

\* C1 (as claimed): when a rule matches the root, the replacement is terminal:
\* no filter or transformer is invoked on a descendant and the total count is 1.
C1_RootReplacementIsTerminal ==
    (Applied /\ RootMatched) =>
        /\ \A k \in DOMAIN Trace : Trace[k].module = pre.model
        /\ Completed => res.root_replaced_count + res.replaced_count = 1

\* C1 (amended): whether or not a rule matched the root, apply walks the
\* children of the module the root-level check returned (the transformer's
\* output when a rule matched): every module child of it is tested against the
\* first rule, and the total count is the root-level count (1 exactly when a
\* rule matched the root) plus the replacements made below the root.
C1_RootReplacementThenChildren ==
    Completed =>
        /\ res.root_replaced_count = (IF RootMatched THEN 1 ELSE 0)
        /\ pre.rules # <<>> =>
              \A j \in ModuleChildren(res.root_heap, res.root_module) :
                  \E k \in DOMAIN Trace :
                      /\ Trace[k].ev = "filter" /\ Trace[k].rule = 1
                      /\ Trace[k].module = res.root_heap[res.root_module].children[j].ref
        /\ res.root_replaced_count + res.replaced_count
              = res.root_replaced_count
                + Cardinality({ k \in Replacements : Trace[k].module # pre.model })

C1_Witness ==
    /\ Completed /\ RootMatched
    /\ res.root_replaced_count = 1
    /\ res.replaced_count >= 1
    /\ res.returned # pre.model

\* C2: rules are evaluated against a node in insertion order, a later rule is
\* consulted only after every earlier filter returned false, and once a filter
\* returns true exactly that rule's transformer is invoked and nothing else is
\* called for the node.
C2_FirstMatchWins ==
    Applied =>
      \A k \in DOMAIN Trace :
        /\ (Trace[k].ev = "filter" /\ Trace[k].rule = 1) =>
              \A k2 \in 1..(k - 1) : Trace[k2].module # Trace[k].module
        /\ (Trace[k].ev = "filter" /\ Trace[k].rule > 1) =>
              /\ k > 1
              /\ Trace[k - 1].ev = "filter"
              /\ Trace[k - 1].module = Trace[k].module
              /\ Trace[k - 1].rule = Trace[k].rule - 1
              /\ Trace[k - 1].raised = NoException /\ ~Trace[k - 1].value
        /\ Trace[k].ev = "transformer" =>
              /\ k > 1
              /\ Trace[k - 1].ev = "filter"
              /\ Trace[k - 1].module = Trace[k].module
              /\ Trace[k - 1].rule = Trace[k].rule
              /\ Trace[k - 1].value
        /\ (Trace[k].ev = "filter" /\ Trace[k].value) =>
              /\ k + 1 \in DOMAIN Trace /\ Trace[k + 1].ev = "transformer"
              /\ \A k2 \in (k + 2)..Len(Trace) : Trace[k2].module # Trace[k].module
        /\ Trace[k].ev = "transformer" =>
              \A k2 \in (k + 1)..Len(Trace) : Trace[k2].module # Trace[k].module

\* a node was replaced by a rule although a later rule's filter matches it too
C2_Witness ==
    /\ Applied
    /\ \E k \in Replacements : \E i \in DOMAIN pre.rules :
          /\ i > Trace[k].rule
          /\ Trace[k].module \in DOMAIN pre.heap
          /\ Filter_apply(pre.rules[i].filter, pre.heap, Trace[k].module,
                          Trace[k].name, Trace[k].full_name).value

\* C3: when a non-root child matches, its parent's entry for that name holds
\* the transformer's output, and apart from the child's own test nothing in the
\* replacement's subtree or in the matched child's subtree is passed to a
\* filter or transformer during the call.
C3_NoReentryIntoReplacements ==
    Applied =>
      \A k \in Replacements :
        Trace[k].module # pre.model =>
          /\ Resolve(heap, res.root_module, PathOf(Trace[k].module)) = Trace[k].result
          /\ \A k2 \in DOMAIN Trace :
                (Trace[k2].module \in Subtree(heap, Trace[k].result)
                                        \cup Subtree(res.root_heap, Trace[k].module))
                    => (k2 <= k /\ Trace[k2].module = Trace[k].module)

\* a child was replaced by a module holding a node that a rule's filter matches
C3_Witness ==
    /\ Applied
    /\ \E k \in Replacements :
          /\ Trace[k].module # pre.model
          /\ Trace[k].result # Trace[k].module
          /\ \E n \in Subtree(heap, Trace[k].result) : \E i \in DOMAIN pre.rules :
                Filter_apply(pre.rules[i].filter, heap, n, "dw",
                             Trace[k].full_name \o ".dw").value

\* C4: the root is tested with name "" and full_name ""; every other node is
\* tested with its local child name and the dot-joined child names from the
\* root down to it.
C4_PathCorrectness ==
    Applied =>
      \A k \in DOMAIN Trace :
        IF Trace[k].module = pre.model
        THEN Trace[k].name = "" /\ Trace[k].full_name = ""
        ELSE /\ PathOf(Trace[k].module) # <<>>
             /\ Trace[k].name = PathOf(Trace[k].module)[Len(PathOf(Trace[k].module))]
             /\ Trace[k].full_name = Join(PathOf(Trace[k].module))

C4_Witness ==
    /\ Applied
    /\ \E k \in DOMAIN Trace :
          /\ Trace[k].full_name = "block1.conv1" /\ Trace[k].name = "conv1"
          /\ Trace[k].ev = "transformer"
    /\ \E k \in DOMAIN Trace : Trace[k].full_name = "act"

\* C5: when every filter returns false on every module of the tree, apply
\* returns the same root, the heap (identities, child mappings, attributes) is
\* as before, no transformer ran and the counts are 0.
NoRuleMatchesAnywhere ==
    \A n \in Subtree(pre.heap, pre.model) : \A i \in DOMAIN pre.rules :
        pre.heap[n].is_module =>
            /\ Filter_apply(pre.rules[i].filter, pre.heap, n,
                   IF n = pre.model THEN ""
                   ELSE PathTo(pre.heap, pre.model, n)[Len(PathTo(pre.heap, pre.model, n))],
                   Join(PathTo(pre.heap, pre.model, n))).raised = NoException
            /\ ~Filter_apply(pre.rules[i].filter, pre.heap, n,
                   IF n = pre.model THEN ""
                   ELSE PathTo(pre.heap, pre.model, n)[Len(PathTo(pre.heap, pre.model, n))],
                   Join(PathTo(pre.heap, pre.model, n))).value

C5_NonMatchingPassChangesNothing ==
    (Applied /\ NoRuleMatchesAnywhere) =>
        /\ res.raised = NoException
        /\ res.returned = pre.model
        /\ heap = pre.heap
        /\ TransformerCalls = {}
        /\ res.root_replaced_count = 0 /\ res.replaced_count = 0

C5_Witness ==
    /\ Applied /\ NoRuleMatchesAnywhere
    /\ pre.rules # <<>>
    /\ Len(pre.heap[pre.model].children) >= 2
    /\ Len(Trace) >= 3

\* C6: a completed apply counts exactly its transformer invocations; each
\* replaced node's place (the root, or its entry in its parent) holds the
\* transformer's output, and every tested node no filter matched is still in
\* its place.
TestedNodes == { Trace[k].module : k \in DOMAIN Trace }
Matched(n) == \E k \in DOMAIN Trace : Trace[k].module = n /\ Trace[k].ev = "filter" /\ Trace[k].value
PlaceOf(n) ==
    IF n = pre.model THEN res.returned
    ELSE Resolve(heap, res.returned, PathOf(n))

C6_CountAggregation ==
    Completed =>
        /\ res.root_replaced_count + res.replaced_count = Cardinality(TransformerCalls)
        /\ Cardinality(TransformerCalls)
              = Cardinality({ n \in TestedNodes :
                                \E k \in Replacements :
                                    Trace[k].module = n /\ PlaceOf(n) = Trace[k].result })
        /\ \A n \in TestedNodes : ~Matched(n) => PlaceOf(n) = n

\* two root-level convolutions 3x3 and 7x7 under the allowlist {3x3, 5x5}
C6_Witness ==
    /\ Completed
    /\ pre.rules = BSConvU_Replacer_init(DefaultKernelSizes)
    /\ Len(pre.heap) = 3
    /\ pre.heap[2] = Conv2d(3, 3) /\ pre.heap[3] = Conv2d(7, 7)
    /\ res.root_replaced_count + res.replaced_count = 1
    /\ heap[1].children[1].ref # 2 /\ heap[heap[1].children[1].ref].kind = "BSConvU"
    /\ heap[1].children[2].ref = 3 /\ heap[3] = pre.heap[3]

\* C7: when a filter or transformer raises, apply raises that exception; what
\* was replaced before stays in its parent's mapping, and every other entry
\* and every object not replaced is as the walk found it.
RaisingCalls == { k \in DOMAIN Trace : Trace[k].raised # NoException }
ReplacedBy(n) == { Trace[k].result : k \in { k2 \in Replacements : Trace[k2].module = n } }

C7_FailureLeavesPartialResult ==
    (Applied /\ res.raised # NoException) =>
        /\ RaisingCalls = {Len(Trace)}
        /\ res.raised = Trace[Len(Trace)].raised
        /\ res.returned = 0 /\ model = pre.model
        /\ \A k \in Replacements :
              Trace[k].module # pre.model =>
                  Resolve(heap, res.root_module, PathOf(Trace[k].module)) = Trace[k].result
        /\ \A n \in DOMAIN res.root_heap :
              /\ Len(heap[n].children) = Len(res.root_heap[n].children)
              /\ \A j \in DOMAIN res.root_heap[n].children :
                    /\ heap[n].children[j].name = res.root_heap[n].children[j].name
                    /\ \/ heap[n].children[j].ref = res.root_heap[n].children[j].ref
                       \/ heap[n].children[j].ref \in ReplacedBy(res.root_heap[n].children[j].ref)
              /\ ReplacedBy(n) = {} =>
                    [heap[n] EXCEPT !.children = res.root_heap[n].children] = res.root_heap[n]
        /\ \A n \in DOMAIN pre.heap :
              ReplacedBy(n) = {} =>
                  /\ res.root_heap[n] = pre.heap[n]
                  /\ \A m \in DOMAIN pre.heap : \A j \in DOMAIN pre.heap[m].children :
                        pre.heap[m].children[j].ref = n => heap[m].children[j].ref = n

\* a child was replaced, then a later node failed, with siblings still to come
C7_Witness ==
    /\ Applied /\ res.raised # NoException
    /\ \E k \in Replacements :
          /\ Trace[k].module # pre.model
          /\ Trace[k].result # Trace[k].module
    /\ \E j \in DOMAIN pre.heap[pre.model].children :
          /\ pre.heap[pre.heap[pre.model].children[j].ref].is_module
          /\ pre.heap[pre.model].children[j].ref \notin TestedNodes

\* C8: add_rule raises exactly when its arguments are neither one rule nor a
\* (filter, transformer) pair, and then the rule list is as before.
ValidShape(types) ==
    \/ types = <<"ModuleReplacementRule">>
    \/ types = <<"ModuleFilter", "ModuleTransformer">>

C8_AddRuleRejectsOtherShapes ==
    call.op = "add_rule" =>
        /\ (res.raised # NoException) <=> ~ValidShape(call.args)
        /\ res.raised # NoException => (res.raised = "TypeError" /\ rules = pre.rules)
        /\ res.raised = NoException => Len(rules) = Len(pre.rules) + 1

C8_Witness ==
    /\ call.op = "add_rule"
    /\ call.args = <<"ModuleTransformer", "ModuleFilter">>
    /\ res.raised = "TypeError"
    /\ pre.rules # <<>> /\ rules = pre.rules

\* C9: the rule list is the sequence of the successfully added rules in call
\* order; a successful add_rule appends one rule after the existing ones, a
\* failed one and apply leave the list alone, and no call changes verbosity.
C9_RuleListAppendOnly ==
    /\ rules = added
    /\ call.op \in {"add_rule", "apply"} =>
          /\ verbosity = pre.verbosity
          /\ Len(rules) >= Len(pre.rules)
          /\ SubSeq(rules, 1, Len(pre.rules)) = pre.rules
          /\ Len(rules) <= Len(pre.rules) + 1
    /\ Applied => rules = pre.rules

\* a rule added after an apply call, behind an earlier one
C9_Witness ==
    /\ call.op = "add_rule" /\ res.raised = NoException
    /\ napplies >= 1
    /\ Len(rules) >= 2 /\ rules[1] # rules[2]
    /\ rules = added

\* C10: under the regularization preset on a root that is no convolution, the
\* root-filter rule (rule 2) fires once, on the root; no other node is tested
\* with an empty full name; apply returns the root it was given.
C10_RootFilterFiresOnceOnRoot ==
    (Applied /\ pre.rules = BSConvS_Replacer_init(DefaultKernelSizes)
             /\ pre.heap[pre.model].kind # "Conv2d") =>
        /\ Cardinality({ k \in TransformerCalls : Trace[k].rule = 2 }) = 1
        /\ \A k \in TransformerCalls : Trace[k].rule = 2 => Trace[k].module = pre.model
        /\ \A k \in DOMAIN Trace : Trace[k].full_name = "" => Trace[k].module = pre.model
        /\ res.raised = NoException
        /\ res.returned = pre.model
        /\ heap[pre.model].reg_loss

C10_Witness ==
    /\ Applied /\ pre.rules = BSConvS_Replacer_init(DefaultKernelSizes)
    /\ pre.heap[pre.model].kind # "Conv2d"
    /\ res.root_replaced_count = 1 /\ res.replaced_count >= 1
    /\ \E k \in DOMAIN Trace :
          Trace[k].ev = "filter" /\ Trace[k].rule = 2 /\ Trace[k].module # pre.model

\* what the call printed
Out == res.out
SummaryLines == { k \in DOMAIN Out : Out[k].line = "total" }
TraceLines == { k \in DOMAIN Out : Out[k].line = "replaced" }
\* the j-th smallest element of a set of indices
NthOf(S, j) == CHOOSE k \in S : Cardinality({ x \in S : x < k }) = j - 1

\* verbosity 0 prints nothing, and below 2 no replacement is reported
SilentBelowLevel ==
    /\ pre.verbosity = 0 => Out = <<>>
    /\ pre.verbosity < 2 => TraceLines = {}

\* from verbosity 2 on there is one line per replacement, in the order the
\* replacements were made, naming the replaced node's path or "(root)", its
\* type and the type of what replaced it
OneTraceLinePerReplacement ==
    pre.verbosity >= 2 =>
        /\ Cardinality(TraceLines) = Cardinality(Replacements)
        /\ \A j \in 1..Cardinality(Replacements) :
              LET line == Out[NthOf(TraceLines, j)]
                  event == Trace[NthOf(Replacements, j)]
              IN /\ line.path = IF event.module = pre.model THEN "(root)"
                                ELSE Join(PathOf(event.module))
                 /\ line.old = heap[event.module].kind
                 /\ line.new = heap[event.result].kind

\* one summary line, the last line, giving root-level plus recursive count
OneSummaryLine ==
    pre.verbosity >= 1 =>
        /\ Cardinality(SummaryLines) = 1
        /\ SummaryLines = {Len(Out)}
        /\ Out[Len(Out)].total = res.root_replaced_count + res.replaced_count
        /\ Out[Len(Out)].total = Cardinality(Replacements)
        /\ pre.verbosity >= 2 => Out[Len(Out)].total = Cardinality(TraceLines)

\* the call does to the tree what it would have done at any other verbosity
SameTreeForEveryVerbosity ==
    \A v \in Verbosities :
        /\ apply_call([verbosity |-> v, rules |-> pre.rules], pre.heap, pre.model).heap = heap
        /\ apply_call([verbosity |-> v, rules |-> pre.rules], pre.heap, pre.model).returned
              = res.returned
        /\ apply_call([verbosity |-> v, rules |-> pre.rules], pre.heap, pre.model).raised
              = res.raised

\* C13 (as claimed): verbosity 0 prints nothing; verbosity >= 1 prints exactly
\* one summary line per apply call, giving root-level plus recursive count;
\* verbosity >= 2 also prints one trace line per replacement, naming its path or
\* "(root)"; the tree does not depend on the verbosity.
C13_OneSummaryLinePerApplyCall ==
    Applied =>
        /\ SilentBelowLevel
        /\ OneSummaryLine
        /\ OneTraceLinePerReplacement
        /\ SameTreeForEveryVerbosity

\* C13 (amended): verbosity 0 prints nothing; verbosity >= 1 prints exactly one
\* summary line per apply call that returns, giving root-level plus recursive
\* count, and none for a call that a filter or transformer ends by raising;
\* verbosity >= 2 also prints one trace line per replacement made, naming its
\* path or "(root)"; the tree does not depend on the verbosity.
C13_VerbosityControlsOutputOnly ==
    Applied =>
        /\ SilentBelowLevel
        /\ IF res.raised = NoException THEN OneSummaryLine ELSE SummaryLines = {}
        /\ OneTraceLinePerReplacement
        /\ SameTreeForEveryVerbosity

\* verbosity 2, the root and a nested child replaced, three lines printed
C13_Witness ==
    /\ Completed
    /\ pre.verbosity = 2
    /\ Cardinality(TraceLines) = 2
    /\ \E k \in TraceLines : Out[k].path = "(root)"
    /\ \E k \in TraceLines : Out[k].path = "block1.conv1"
    /\ Out[Len(Out)].total = 2

\* the child positions from r down to n, e.g. <<1, 2>> for the second child of
\* the first child (<<0>> when n is not below r)
RECURSIVE PositionsTo(_, _, _)
PositionsTo(h, r, n) ==
    IF r = n THEN {<<>>}
    ELSE UNION { { <<j>> \o p : p \in PositionsTo(h, h[r].children[j].ref, n) } :
                 j \in DOMAIN h[r].children }
PositionOf(n) ==
    IF n = pre.model THEN <<>>
    ELSE IF PositionsTo(res.root_heap, res.root_module, n) = {} THEN <<0>>
    ELSE CHOOSE p \in PositionsTo(res.root_heap, res.root_module, n) : TRUE

\* p comes before q in depth-first pre-order: p is a proper ancestor of q, or
\* where they part p takes the earlier sibling
IsProperPrefix(p, q) == Len(p) < Len(q) /\ SubSeq(q, 1, Len(p)) = p
PreorderBefore(p, q) ==
    \/ IsProperPrefix(p, q)
    \/ \E d \in 1..Len(p) :
          /\ d <= Len(q)
          /\ SubSeq(p, 1, d - 1) = SubSeq(q, 1, d - 1)
          /\ p[d] < q[d]
FilterCalls == { k \in DOMAIN Trace : Trace[k].ev = "filter" }

\* C14: within one apply call the rule list is evaluated against each node at
\* most once; the root is tested first, a node before its descendants, siblings
\* in declared order, and one sibling's subtree is finished before the next
\* sibling is tested (depth-first pre-order).
C14_DepthFirstPreorderOnce ==
    Applied =>
        /\ FilterCalls # {} => Trace[1].module = pre.model
        /\ \A k, l \in FilterCalls :
              k < l =>
                 IF Trace[k].module = Trace[l].module
                 THEN Trace[k].rule < Trace[l].rule
                 ELSE PreorderBefore(PositionOf(Trace[k].module), PositionOf(Trace[l].module))

\* root, block1, block1's children, then block1's next sibling
C14_Witness ==
    /\ Completed
    /\ \E k1, k2, k3, k4 \in FilterCalls :
          /\ k1 < k2 /\ k2 < k3 /\ k3 < k4
          /\ Trace[k1].full_name = ""
          /\ Trace[k2].full_name = "block1"
          /\ Trace[k3].full_name = "block1.relu"
          /\ Trace[k4].full_name = "act"
    /\ \E k, l \in FilterCalls : k < l /\ Trace[k].module = Trace[l].module

\* the nodes whose child mapping the call walked: the module the root-level
\* check returned, and every tested child no rule matched
Walked == {res.root_module} \cup { n \in TestedNodes : n # pre.model /\ ~Matched(n) }
\* the child names of n, in order
NamesOf(h, n) == [j \in DOMAIN h[n].children |-> h[n].children[j].name]

\* C15: the child mapping of every node keeps its names and their order; after
\* apply each name of a walked node maps to the child it mapped to when the
\* walk of that node began if no rule matched that child, and to the
\* transformer's output for that child if one did; nothing is added, removed or
\* reordered.
C15_ChildMappingsKeepShape ==
    Applied =>
        /\ \A n \in DOMAIN pre.heap : res.root_heap[n].children = pre.heap[n].children
        /\ \A n \in DOMAIN res.root_heap :
              /\ NamesOf(heap, n) = NamesOf(res.root_heap, n)
              /\ \A j \in DOMAIN heap[n].children :
                    \/ heap[n].children[j].ref = res.root_heap[n].children[j].ref
                    \/ /\ n \in Walked
                       /\ heap[n].children[j].ref \in ReplacedBy(res.root_heap[n].children[j].ref)
        /\ Completed =>
              \A n \in Walked : \A j \in DOMAIN heap[n].children :
                  IF Matched(res.root_heap[n].children[j].ref)
                  THEN heap[n].children[j].ref \in ReplacedBy(res.root_heap[n].children[j].ref)
                  ELSE heap[n].children[j].ref = res.root_heap[n].children[j].ref

\* a walked node with two children of which the first is rebound to a new
\* object and the second is not
C15_Witness ==
    /\ Completed
    /\ \E n \in Walked :
          /\ Len(heap[n].children) >= 2
          /\ heap[n].children[1].ref # res.root_heap[n].children[1].ref
          /\ heap[n].children[1].ref \in ReplacedBy(res.root_heap[n].children[1].ref)
          /\ heap[n].children[2].ref = res.root_heap[n].children[2].ref

\* the attribute values that are not modules
NonModules == { n \in DOMAIN pre.heap : ~pre.heap[n].is_module }

\* C16: an attribute that is not a module is never passed to a filter or
\* transformer, nothing it holds is visited through it, and after apply the
\* attribute names the same, unchanged value.
C16_NonModuleChildrenAreSkipped ==
    Applied =>
        \A n \in NonModules :
            /\ Subtree(pre.heap, n) \cap TestedNodes = {}
            /\ \A m \in Subtree(pre.heap, n) : heap[m] = pre.heap[m]
            /\ \A p \in DOMAIN pre.heap : \A j \in DOMAIN pre.heap[p].children :
                  pre.heap[p].children[j].ref = n
                      => /\ j \in DOMAIN heap[p].children
                         /\ heap[p].children[j] = pre.heap[p].children[j]

\* the walk replaced a 3x3 convolution next to a non-module attribute and left
\* the 3x3 convolution that attribute holds alone
C16_Witness ==
    /\ Completed
    /\ \E n \in NonModules :
          /\ \E j \in DOMAIN pre.heap[pre.model].children :
                pre.heap[pre.model].children[j].ref = n
          /\ res.root_module = pre.model
          /\ \E m \in Subtree(pre.heap, n) : pre.heap[m] = Conv2d(3, 3)
    /\ \E k \in Replacements : pre.heap[Trace[k].module] = Conv2d(3, 3)
    /\ Len(Trace) >= 6

\* ------------------------------------------------------------------ kernel-size filter

\* The sizes an allowlist is written with, and the allowlists given to
\* Conv2dFilter(kernel_sizes=...): None, or a list of up to MaxAllowlist sizes
KernelEntries ==
    { PyInt(3), PyInt(5),
      PyTuple(<<PyInt(3), PyInt(3)>>), PyTuple(<<PyInt(3), PyInt(5)>>),
      PyTuple(<<PyInt(5), PyInt(5)>>), PyList(<<PyInt(3), PyInt(3)>>) }

Allowlists ==
    {None} \cup { PyList(s) : s \in UNION { [1..n -> KernelEntries] : n \in 0..MaxAllowlist } }

\* The modules the filter is asked about
KernelDims == {3, 5, 7}
FilterModules == { Conv2d(kh, kw) : kh \in KernelDims, kw \in KernelDims } \cup {ReLU}

\* filter = Conv2dFilter(kernel_sizes); one module to ask it about
FilterInit ==
    /\ \E kernel_sizes \in Allowlists :
          /\ rules = << ModuleReplacementRule(Conv2dFilter(kernel_sizes),
                                              Conv2dToBSConvUTransformer) >>
          /\ call = [op |-> "Conv2dFilter", args |-> kernel_sizes]
    /\ \E m \in FilterModules : heap = <<m>>
    /\ model = 1
    /\ added = rules
    /\ verbosity = 0
    /\ napplies = 0
    /\ pre = [rules |-> <<>>, verbosity |-> 0, heap |-> <<>>, model |-> 0]
    /\ res = NoResult
    /\ frames = <<>>

\* filter.apply(module, name, full_name)
filter_apply ==
    /\ call.op = "Conv2dFilter"
    /\ call' = [op |-> "Conv2dFilter.apply", args |-> call.args]
    /\ pre' = Snapshot
    /\ res' = [NoResult EXCEPT !.trace =
                  << FilterCall(1, model, "", "",
                                Filter_apply(rules[1].filter, heap, model, "", "")) >>]
    /\ UNCHANGED <<verbosity, rules, heap, model, added, napplies, frames>>

FilterNext == filter_apply

FilterSpec == FilterInit /\ [][FilterNext]_vars

\* the pair of numbers a written size stands for, and a convolution's kernel
SizeOf(e) == IF e.ty = "int" THEN <<e.val, e.val>> ELSE <<e.val[1].val, e.val[2].val>>
KernelOf(obj) == <<obj.kernel_size.val[1].val, obj.kernel_size.val[2].val>>
Asked == call.op = "Conv2dFilter.apply"

\* C11: Conv2dFilter.apply is true iff the module is a 2D convolution and
\* either there is no allowlist or its (height, width) is a size of the
\* allowlist, a scalar k standing for (k, k); so [3] matches (3, 3) and not
\* (3, 5), and [(3,3),(5,5)] answers as [3, 5] does.
C11_KernelSizeFilter ==
    Asked =>
        /\ res.trace[1].raised = NoException
        /\ res.trace[1].value
              <=> /\ heap[model].kind = "Conv2d"
                  /\ \/ call.args.ty = "NoneType"
                     \/ \E i \in DOMAIN call.args.val :
                            SizeOf(call.args.val[i]) = KernelOf(heap[model])
        /\ (call.args = PyList(<<PyInt(3)>>) /\ heap[model] = Conv2d(3, 3))
              => res.trace[1].value
        /\ (call.args = PyList(<<PyInt(3)>>) /\ heap[model] = Conv2d(3, 5))
              => ~res.trace[1].value
        /\ call.args = PyList(<<PyTuple(<<PyInt(3), PyInt(3)>>), PyTuple(<<PyInt(5), PyInt(5)>>)>>)
              => res.trace[1].value
                    = Conv2dFilter_apply(Conv2dFilter(PyList(<<PyInt(3), PyInt(5)>>)),
                                         heap, model, "", "")

\* the allowlist [3] asked about a 3x3 convolution
C11_Witness ==
    /\ Asked
    /\ call.args = PyList(<<PyInt(3)>>)
    /\ heap[model] = Conv2d(3, 3)
    /\ res.trace[1].value

\* ------------------------------------------------------------------ regularization loss

\* The models reg_loss is read on: root{block{conv, act}, head}, every node
\* either defining _reg_loss or not; node i returns 2.5 * 2^(i-1)
SubLoss == <<25, 50, 100, 200, 400>>
RegNodes ==
    << Container(<< Entry("block", 2), Entry("head", 5) >>),
       Container(<< Entry("conv", 3), Entry("act", 4) >>),
       Conv2d(3, 3),
       ReLU,
       Conv2d(7, 7) >>
RegModels ==
    { [i \in 1..5 |-> IF i \in P THEN WithRegLoss(RegNodes[i], SubLoss[i]) ELSE RegNodes[i]] :
      P \in SUBSET (1..5) }

RegInit ==
    /\ verbosity = 0
    /\ rules = BSConvU_Replacer_init(DefaultKernelSizes)
    /\ added = rules
    /\ call = [op |-> "BSConvU_Replacer", args |-> <<>>]
    /\ heap \in RegModels
    /\ model = 1
    /\ napplies = 0
    /\ pre = [rules |-> <<>>, verbosity |-> 0, heap |-> <<>>, model |-> 0]
    /\ res = NoResult
    /\ frames = <<>>

\* model = RegularizationMethodTransformer().apply(model, "", "")
attach_reg_loss ==
    LET r == RegularizationMethodTransformer_apply(heap, model, "", "")
    IN /\ ~heap[model].reg_loss
       /\ heap' = r.heap
       /\ model' = r.module
       /\ call' = [op |-> "RegularizationMethodTransformer.apply", args |-> <<>>]
       /\ pre' = Snapshot
       /\ res' = NoResult
       /\ UNCHANGED <<verbosity, rules, added, napplies, frames>>

\* loss = model.reg_loss()
reg_loss ==
    /\ heap[model].reg_loss
    /\ call' = [op |-> "reg_loss", args |-> <<>>]
    /\ pre' = Snapshot
    /\ res' = [loss |-> reg_loss_call(heap, model)]
    /\ UNCHANGED <<verbosity, rules, heap, model, added, napplies, frames>>

RegNext ==
    \/ attach_reg_loss
    \/ reg_loss
    \/ apply

RegSpec == RegInit /\ [][RegNext]_vars

\* the nodes at and below the root that define _reg_loss, and the sum of
\* what they return
Contributors == { n \in Subtree(heap, model) : HasRegLoss(heap[n]) }
RECURSIVE SumOfLosses(_)
SumOfLosses(S) ==
    IF S = {} THEN 0
    ELSE LET n == CHOOSE n \in S : TRUE
         IN heap[n]._reg_loss + SumOfLosses(S \ {n})
LossRead == call.op = "reg_loss"

\* C12: every invocation of the attached reg_loss returns the sum of
\* _reg_loss() over the nodes of the root's subtree as it is at that moment,
\* the root included, that define it; one contributor returning v gives v,
\* and no contributor gives the seed 0.
C12_RegLossIsSumOverCurrentSubtree ==
    LossRead =>
        /\ res.loss = SumOfLosses(Contributors)
        /\ \A n \in Contributors : Contributors = {n} => res.loss = heap[n]._reg_loss
        /\ Contributors = {} => res.loss = 0

\* read after apply has rewritten the tree, the root and one descendant
\* contributing
C12_Witness ==
    /\ LossRead
    /\ napplies = 1
    /\ Len(heap) > Len(RegNodes)
    /\ Contributors = {model, 4}
    /\ res.loss = 25 + 200

\* ------------------------------------------------------------------ regularization preset

\* the modules at and below r, through module children only
RECURSIVE ModuleSubtree(_, _)
ModuleSubtree(h, r) ==
    {r} \cup UNION { ModuleSubtree(h, h[r].children[j].ref) : j \in ModuleChildren(h, r) }

\* a convolution whose kernel is 3x3 or 5x5, the preset's allowlist
Allowlisted(obj) == obj.kind = "Conv2d" /\ KernelOf(obj) \in {<<3, 3>>, <<5, 5>>}

\* the allowlisted convolutions below the root with no allowlisted convolution
\* between the root and them
ConvsToReplace ==
    { n \in ModuleSubtree(pre.heap, pre.model) \ {pre.model} :
        /\ Allowlisted(pre.heap[n])
        /\ \A a \in ModuleSubtree(pre.heap, pre.model) \ {pre.model, n} :
              n \in ModuleSubtree(pre.heap, a) => ~Allowlisted(pre.heap[a]) }

RegularizationPresetOnNonConvRoot ==
    /\ Applied
    /\ pre.rules = BSConvS_Replacer_init(DefaultKernelSizes)
    /\ pre.heap[pre.model].kind # "Conv2d"

\* C17: under the regularization preset, one apply on a root that is not a
\* convolution attaches reg_loss to the root and also replaces every
\* allowlisted convolution below it that has no replaced ancestor below the
\* root; the total count is 1 plus the number of convolutions replaced.
C17_RootMatchDoesNotStopChildPass ==
    RegularizationPresetOnNonConvRoot =>
        /\ Completed
        /\ res.returned = pre.model
        /\ heap[pre.model].reg_loss
        /\ res.root_replaced_count = 1
        /\ { Trace[k].module : k \in Replacements } = {pre.model} \cup ConvsToReplace
        /\ \A n \in ConvsToReplace :
              /\ PlaceOf(n) # n
              /\ PlaceOf(n) \in ReplacedBy(n)
              /\ heap[PlaceOf(n)].kind = "BSConvS"
        /\ res.replaced_count = Cardinality(ConvsToReplace)
        /\ res.root_replaced_count + res.replaced_count = 1 + Cardinality(ConvsToReplace)
        /\ pre.verbosity >= 1 => Out[Len(Out)].total = 1 + Cardinality(ConvsToReplace)

\* a container root: reg_loss attached and a nested 3x3 convolution replaced in
\* the same call, a 3x5 convolution left
C17_Witness ==
    /\ RegularizationPresetOnNonConvRoot
    /\ ~pre.heap[pre.model].reg_loss
    /\ heap[pre.model].reg_loss
    /\ ConvsToReplace # {}
    /\ \E n \in ModuleSubtree(pre.heap, pre.model) : pre.heap[n] = Conv2d(3, 5)
    /\ res.root_replaced_count + res.replaced_count = 2

\* ------------------------------------------------------------------ termination

\* apply, one loop iteration at a time.  A frame is one _apply_recursively call
\* in progress: its module, its name_prefix, its snapshot of the children, the
\* position k of its loop and its replaced_count.
Frame(module, name_prefix, children) ==
    [module |-> module, name_prefix |-> name_prefix, children |-> children,
     k |-> 1, replaced_count |-> 0]
Top == frames[Len(frames)]
Self == [verbosity |-> verbosity, rules |-> rules]
Running == [heap |-> heap, trace |-> res.trace, out |-> res.out, raised |-> NoException]

\* the rules whose filter and transformer raise on no module
NonRaisingRules ==
    { r \in RuleUniverse :
        r.filter.cls = "KindFilter"
            => /\ r.filter.raises = {}
               /\ r.transformer.cls = "RegularizationMethodTransformer" }
NonRaisingRuleLists == UNION { [1..n -> NonRaisingRules] : n \in 0..MaxRules }

TermInit ==
    /\ verbosity \in Verbosities
    /\ rules \in NonRaisingRuleLists
    /\ added = rules
    /\ call = [op |-> "ModuleReplacer", args |-> <<>>]
    /\ \E m \in Models : heap = m.heap /\ model = m.root
    /\ napplies = 0
    /\ pre = [rules |-> <<>>, verbosity |-> 0, heap |-> <<>>, model |-> 0]
    /\ res = NoResult
    /\ frames = <<>>

\* apply is called: the root-level _apply_rules, then _apply_recursively is
\* entered on the module it returned
apply_begin ==
    LET r1 == _apply_rules(Self, [Running EXCEPT !.trace = <<>>, !.out = <<>>], model, "", "")
    IN /\ frames = <<>>
       /\ napplies < MaxApplies
       /\ napplies' = napplies + 1
       /\ call' = [op |-> "apply", args |-> <<>>]
       /\ pre' = Snapshot
       /\ heap' = r1.st.heap
       /\ res' = [NoResult EXCEPT !.trace = r1.st.trace, !.out = r1.st.out,
                                  !.root_replaced_count = r1.count,
                                  !.root_module = r1.module,
                                  !.root_heap = r1.st.heap]
       /\ frames' = << Frame(r1.module, "", named_children(r1.st.heap, r1.module)) >>
       /\ UNCHANGED <<verbosity, rules, model, added>>

\* Mutant of apply_child_step: a replaced child is not counted and the loop
\* stays on it
apply_child_step_stay(r1) ==
    IF r1.count = 0
    THEN /\ frames' = Append(frames,
                         Frame(Top.children[Top.k].ref,
                               child_name_prefix_of(Top.name_prefix, Top.children[Top.k].name),
                               named_children(r1.st.heap, Top.children[Top.k].ref)))
         /\ heap' = r1.st.heap
    ELSE /\ frames' = frames
         /\ heap' = setattr(r1.st.heap, Top.module, Top.children[Top.k].name, r1.module)

\* the loop body for a module child, r1 being what _apply_rules returned for
\* it: no rule applied and _apply_recursively is entered on the child, or one
\* did and the name is rebound and the loop moves on
apply_child_step(r1) ==
    IF r1.count = 0
    THEN /\ frames' = Append(frames,
                         Frame(Top.children[Top.k].ref,
                               child_name_prefix_of(Top.name_prefix, Top.children[Top.k].name),
                               named_children(r1.st.heap, Top.children[Top.k].ref)))
         /\ heap' = r1.st.heap
    ELSE /\ frames' = [frames EXCEPT ![Len(frames)] =
                          [@ EXCEPT !.k = @ + 1, !.replaced_count = @ + r1.count]]
         /\ heap' = setattr(r1.st.heap, Top.module, Top.children[Top.k].name, r1.module)

\* one iteration of the loop of the innermost _apply_recursively call
apply_child ==
    /\ frames # <<>>
    /\ Top.k <= Len(Top.children)
    /\ IF ~heap[Top.children[Top.k].ref].is_module
       THEN /\ frames' = [frames EXCEPT ![Len(frames)].k = @ + 1]
            /\ UNCHANGED <<heap, res>>
       ELSE LET r1 == _apply_rules(Self, Running, Top.children[Top.k].ref,
                                   Top.children[Top.k].name,
                                   child_full_name_of(Top.name_prefix, Top.children[Top.k].name))
            IN /\ apply_child_step(r1)
               /\ res' = [res EXCEPT !.trace = r1.st.trace, !.out = r1.st.out]
    /\ UNCHANGED <<verbosity, rules, model, added, napplies, call, pre>>

\* the innermost _apply_recursively call returns (replaced_count, module): to
\* the loop of its caller, which counts, rebinds the name and moves on, or to
\* apply, which prints the summary and returns the module
apply_return ==
    /\ frames # <<>>
    /\ Top.k > Len(Top.children)
    /\ IF Len(frames) > 1
       THEN /\ frames' = [SubSeq(frames, 1, Len(frames) - 1) EXCEPT ![Len(frames) - 1] =
                             [@ EXCEPT !.k = @ + 1,
                                       !.replaced_count = @ + Top.replaced_count]]
            /\ heap' = setattr(heap, frames[Len(frames) - 1].module,
                               frames[Len(frames) - 1].children[frames[Len(frames) - 1].k].name,
                               Top.module)
            /\ UNCHANGED <<res, model>>
       ELSE /\ frames' = <<>>
            /\ res' = [res EXCEPT !.replaced_count = Top.replaced_count,
                                  !.returned = Top.module,
                                  !.out = IF verbosity >= 1
                                          THEN Append(@, TotalLine(Top.replaced_count
                                                                   + res.root_replaced_count))
                                          ELSE @]
            /\ model' = Top.module
            /\ UNCHANGED heap
    /\ UNCHANGED <<verbosity, rules, added, napplies, call, pre>>

TermNext ==
    \/ apply_begin
    \/ apply_child
    \/ apply_return

\* a call that has begun runs on: the interpreter executes the next iteration
\* or return whenever there is one
TermSpec ==
    TermInit /\ [][TermNext]_vars /\ WF_vars(apply_child) /\ WF_vars(apply_return)

InProgress == frames # <<>>
Returned == Applied /\ frames = <<>>
\* the root and the modules below the module the root-level check returned
TraversedNodes == {pre.model} \cup ModuleSubtree(res.root_heap, res.root_module)

\* while apply runs, and when it has returned: no more filter evaluations than
\* traversed nodes times rules
WithinFilterBound ==
    Applied => Cardinality(FilterCalls) <= Cardinality(TraversedNodes) * Len(rules)

\* what apply returned is what the call as a whole computes
ReturnsTheRoot ==
    Returned =>
        /\ model = res.returned
        /\ res.returned = res.root_module
        /\ res.returned = apply_call(Self, pre.heap, pre.model).returned
        /\ heap = apply_call(Self, pre.heap, pre.model).heap
        /\ res.trace = apply_call(Self, pre.heap, pre.model).trace

\* C18: on a finite tree, with finitely many rules whose filters and
\* transformers return without raising, every apply call that has begun
\* returns a root, and it evaluates at most (traversed nodes) x (rules)
\* filters.
C18_ApplyTerminatesWithinBound ==
    /\ [](WithinFilterBound /\ ReturnsTheRoot)
    /\ InProgress ~> Returned

\* a call that went three levels deep has returned, with two rules
C18_Witness ==
    /\ Returned
    /\ Len(rules) = 2
    /\ \E k \in FilterCalls : Trace[k].full_name = "block1.relu"
    /\ Cardinality(FilterCalls) >= 8

====
